---- MODULE Spec2Model ----
(***************************************************************************)
(* AMP webhook: the signature validator (AmpValidator), the middleware     *)
(* that guards the webhook route (validateAmpSignature), the in-memory     *)
(* submission store (WebhookService) and the administrative store          *)
(* (DatabaseService), as state machines.                                   *)
(*                                                                         *)
(* JavaScript runs one callback at a time: every action below is one run   *)
(* of synchronous code between two awaits.                                 *)
(***************************************************************************)
EXTENDS Integers, Sequences, FiniteSets, TLC

(***************************************************************************)
(* Bounds of the model                                                     *)
(***************************************************************************)
\* Requests concurrently inside the validator in the refresh specification.
NumCalls == 2
\* The longest of the short byte strings handed to the key codec.
MaxBytes == 2
\* How often the clock jumps ahead by one key-cache TTL.
MaxTicks == 1
\* processSubmission calls, and fs.writeFile calls of saveSubmissions in flight.
MaxInserts == 3
MaxPendingWrites == 2
\* saveSubmission calls on the DatabaseService.
MaxDbSaves == 3

(***************************************************************************)
(* Program constants                                                       *)
(***************************************************************************)
\* 24 * 60 * 60 * 1000
KEY_CACHE_TTL == 86400000
\* 5 * 60 * 1000
maxTimeDiff == 300000
\* WebhookService.maxSubmissions is 10000; the model keeps the store at one
\* thousandth of it.  Like 10000, 10 is a multiple of 10, so that
\* floor((C + 1) * 0.1) = floor(C * 0.1) as in the program.
maxSubmissions == 10
\* The wall clock (Date.now(), milliseconds) at the start of the model.
T0 == 1000000
\* What crypto.randomBytes / Math.random may return.
RandomValues == {0, 1}

AlgPrefix == "rsa-sha256="

(***************************************************************************)
(* KeyMaterialCodec: AmpValidator.jwkToPem and the hand-written DER codec  *)
(***************************************************************************)
RECURSIVE LengthBytes(_)
\* The while loop of encodeLength: the bytes of temp, most significant first.
LengthBytes(temp) ==
  IF temp > 0 THEN LengthBytes(temp \div 256) \o <<temp % 256>> ELSE <<>>

encodeLength(length) ==
  IF length < 128
    THEN <<length>>
    ELSE LET lengthBytes == LengthBytes(length)
         IN  <<128 + Len(lengthBytes)>> \o lengthBytes

\* value[0] of an empty Buffer is undefined, and undefined >= 0x80 is false.
\* An integer encoding that never pads.
createASN1Integer_NoPadding(value) ==
  <<2>> \o encodeLength(Len(value)) \o value

createASN1Integer(value) ==
  LET needsPadding == Len(value) > 0 /\ value[1] >= 128
      paddedValue  == IF needsPadding THEN <<0>> \o value ELSE value
  IN  <<2>> \o encodeLength(Len(paddedValue)) \o paddedValue

rsaOID == <<48, 13, 6, 9, 42, 134, 72, 134, 247, 13, 1, 1, 1, 5, 0>>

createRSAPublicKeyDER(n, e) ==
  LET nInteger      == createASN1Integer(n)
      eInteger      == createASN1Integer(e)
      innerSequence == <<48>> \o encodeLength(Len(nInteger) + Len(eInteger))
                         \o nInteger \o eInteger
      bitString     == <<3>> \o encodeLength(Len(innerSequence) + 1) \o <<0>>
                         \o innerSequence
  IN  <<48>> \o encodeLength(Len(rsaOID) + Len(bitString)) \o rsaOID \o bitString

\* The PEM text: the two armor lines around the base64 of the DER bytes
\* (base64 is one-to-one, the model keeps the bytes it encodes).
jwkToPem(jwk) ==
  <<"-----BEGIN PUBLIC KEY-----", createRSAPublicKeyDER(jwk.n, jwk.e),
    "-----END PUBLIC KEY-----">>

(***************************************************************************)
(* node's crypto, as the validator uses it.  A signature value names the   *)
(* key pair that made it and the message it was made over; verify imports  *)
(* the PEM key (throwing on a malformed one) and compares.                 *)
(***************************************************************************)
\* A DER length field at index i of b: <<length, index after the field>>.
DerLength(b, i) ==
  IF i > Len(b) THEN <<-1, i>>
  ELSE IF b[i] < 128 THEN <<b[i], i + 1>>
  ELSE LET k == b[i] - 128
       IN  IF k = 1 /\ i + 1 <= Len(b) THEN <<b[i + 1], i + 2>>
           ELSE IF k = 2 /\ i + 2 <= Len(b) THEN <<b[i + 1] * 256 + b[i + 2], i + 3>>
           ELSE <<-1, i>>

\* A DER INTEGER at index i of b: <<ok, magnitude, index after it>>.  A
\* zero-length INTEGER and a negative one (high bit set, no padding byte) are
\* no RSA modulus or exponent.
DerInteger(b, i) ==
  IF i > Len(b) \/ b[i] # 2 THEN <<FALSE, <<>>, i>>
  ELSE LET l     == DerLength(b, i + 1)
           first == l[2]
           last  == l[2] + l[1] - 1
       IN  IF l[1] <= 0 \/ last > Len(b) THEN <<FALSE, <<>>, i>>
           ELSE IF b[first] >= 128 THEN <<FALSE, <<>>, i>>
           ELSE IF b[first] = 0 /\ l[1] > 1
                  THEN <<TRUE, SubSeq(b, first + 1, last), last + 1>>
                  ELSE <<TRUE, SubSeq(b, first, last), last + 1>>

\* crypto's import of a PEM public key: ok with the (n, e) pair, or not ok.
PemImport(pem) ==
  LET b == pem[2]
      outer == DerLength(b, 2)
      oidAt == outer[2]
      bitAt == oidAt + Len(rsaOID)
      bits  == DerLength(b, bitAt + 1)
      seqAt == bits[2] + 1
      inner == DerLength(b, seqAt + 1)
      nInt  == DerInteger(b, inner[2])
      eInt  == DerInteger(b, nInt[3])
  IN  IF /\ Len(b) > 0 /\ b[1] = 48 /\ outer[1] >= 0
         /\ bitAt <= Len(b)
         /\ SubSeq(b, oidAt, bitAt - 1) = rsaOID
         /\ b[bitAt] = 3 /\ bits[1] >= 0
         /\ seqAt <= Len(b) /\ b[bits[2]] = 0 /\ b[seqAt] = 48
         /\ inner[1] >= 0
         /\ nInt[1] /\ eInt[1] /\ eInt[3] = Len(b) + 1
        THEN [ok |-> TRUE, n |-> nInt[2], e |-> eInt[2]]
        ELSE [ok |-> FALSE, n |-> <<>>, e |-> <<>>]

\* verifier.update(message); verifier.verify(publicKey, signatureBuffer):
\* "true", "false", or "throws" for a key crypto cannot import.
CryptoVerify(publicKey, message, signatureBuffer) ==
  LET key == PemImport(publicKey)
  IN  IF ~key.ok THEN "throws"
      ELSE IF /\ signatureBuffer.signer = [n |-> key.n, e |-> key.e]
              /\ signatureBuffer.msg = message
             THEN "true"
             ELSE "false"

(***************************************************************************)
(* Inputs: key material, key descriptors, what the key source answers      *)
(***************************************************************************)
\* Key pairs: A and C are published by the key source, B never is.  The
\* modulus of A has its high bit set.
PairA == [n |-> <<200, 17>>, e |-> <<1, 0, 1>>]
PairB == [n |-> <<90, 33>>, e |-> <<3>>]
PairC == [n |-> <<77, 5>>, e |-> <<1, 0, 1>>]
NoPair == [n |-> <<>>, e |-> <<>>]

\* One entry of the "keys" array of the key source's JSON.  null is the JSON
\* null; a field is "missing" (absent, or falsy), a "string" (with the bytes
\* its base64url text decodes to) or a "number" (truthy, not a string).
Field(kind, bytes) == [kind |-> kind, bytes |-> bytes]
Jwk(kid, n, e) == [null |-> FALSE, kid |-> kid, n |-> n, e |-> e]
JwkA == Jwk("kA", Field("string", PairA.n), Field("string", PairA.e))
JwkC == Jwk("kC", Field("string", PairC.n), Field("string", PairC.e))
\* n is a non-empty text that decodes to no byte at all.
JwkEmpty == Jwk("kE", Field("string", <<>>), Field("string", <<1, 0, 1>>))
JwkNoE == Jwk("kN", Field("string", PairB.n), Field("missing", <<>>))
JwkNumber == Jwk("kX", Field("number", <<>>), Field("string", <<3>>))
NullEntry == [null |-> TRUE, kid |-> "", n |-> Field("missing", <<>>),
              e |-> Field("missing", <<>>)]

KeyArrays ==
  { <<>>, <<JwkA>>, <<JwkEmpty, JwkA>>, <<JwkC, NullEntry, JwkA>>,
    <<JwkNoE, JwkNumber, JwkC>> }

\* What the awaited fetch and response.json() settle to.
FetchOutcomes ==
  [kind : {"NetworkError", "HttpError", "BadJson", "NoKeysArray"}, keys : {<<>>}]
    \cup [kind : {"ok"}, keys : KeyArrays]

(***************************************************************************)
(* Inputs: requests                                                        *)
(***************************************************************************)
\* Request bodies as transmitted, character by character, and the
\* AMP-Timestamp header texts (seconds).
RawBodies ==
  { <<>>, <<"{", "a", ":", "1", "}">>, <<"{", " ", "a", ":", " ", "1", "}">> }

TimestampHeaders ==
  { <<>>, <<"a">>, <<"1", "0", "0", "0">>, <<"7", "0", "0">>, <<"6", "9", "9">>,
    <<"1", "3", "0", "0">>, <<"1", "3", "0", "1">>,
    <<"8", "7", "4", "0", "0">> }

\* A signature value: who made it, over which message.
SigOf(pair, msg) == [signer |-> pair, msg |-> msg]
EmptySig == SigOf(NoPair, <<>>)

\* The AMP-Signature header text: a prefix followed by base64 data.  An
\* absent header (undefined) and an empty one are both falsy.
Header(prefix, data) == [prefix |-> prefix, data |-> data]
AbsentHeader == Header("", EmptySig)

\* The signature headers a sender of (timestamp, body) may attach: none, a
\* wrong scheme, its own signature over the bytes it transmits (by a published
\* or an unpublished key), a signature lifted from another message.
SignatureHeaders(timestamp, body) ==
  { AbsentHeader,
    Header("sha1=", SigOf(PairA, timestamp \o body)),
    Header(AlgPrefix, SigOf(PairA, timestamp \o body)),
    Header(AlgPrefix, SigOf(PairB, timestamp \o body)),
    Header(AlgPrefix, SigOf(PairA, <<"x">>)),
    Header(AlgPrefix, EmptySig) }

Request(signature, timestamp, body) ==
  [signature |-> signature, timestamp |-> timestamp, body |-> body]

Requests ==
  UNION { { Request(sg, ts, b) : sg \in SignatureHeaders(ts, b) } :
          <<ts, b>> \in TimestampHeaders \X RawBodies }

\* The requests of the refresh specification: correctly signed, fresh at the
\* first and at the second clock value.
RefreshRequests ==
  { Request(Header(AlgPrefix, SigOf(PairA, ts \o <<"{", "a", ":", "1", "}">>)),
            ts, <<"{", "a", ":", "1", "}">>) :
    ts \in { <<"1", "0", "0", "0">>, <<"8", "7", "4", "0", "0">> } }

NoRequest == Request(AbsentHeader, <<>>, <<>>)

(***************************************************************************)
(* JavaScript built-ins the code relies on                                 *)
(***************************************************************************)
Digits == {"0", "1", "2", "3", "4", "5", "6", "7", "8", "9"}
DigitValue(c) ==
  CASE c = "0" -> 0 [] c = "1" -> 1 [] c = "2" -> 2 [] c = "3" -> 3
    [] c = "4" -> 4 [] c = "5" -> 5 [] c = "6" -> 6 [] c = "7" -> 7
    [] c = "8" -> 8 [] c = "9" -> 9

RECURSIVE SkipSpaces(_)
SkipSpaces(s) == IF Len(s) > 0 /\ s[1] = " " THEN SkipSpaces(Tail(s)) ELSE s

RECURSIVE LeadingDigits(_, _)
\* The value of the decimal digits s starts with, after acc.
LeadingDigits(s, acc) ==
  IF Len(s) > 0 /\ s[1] \in Digits
    THEN LeadingDigits(Tail(s), acc * 10 + DigitValue(s[1]))
    ELSE acc

\* parseInt(text): leading blanks, an optional sign, then the leading decimal
\* digits; NaN when there is none.
parseInt(text) ==
  LET t    == SkipSpaces(text)
      neg  == Len(t) > 0 /\ t[1] = "-"
      body == IF Len(t) > 0 /\ t[1] \in {"-", "+"} THEN Tail(t) ELSE t
  IN  IF Len(body) > 0 /\ body[1] \in Digits
        THEN [nan |-> FALSE,
              val |-> IF neg THEN 0 - LeadingDigits(body, 0)
                             ELSE LeadingDigits(body, 0)]
        ELSE [nan |-> TRUE, val |-> 0]

Abs(x) == IF x < 0 THEN 0 - x ELSE x

IsBlank(c) == c = " "
IsNotBlank(c) == ~IsBlank(c)

\* express.json(): the parsed body, here the members of the one object the
\* text holds; insignificant white space is gone, and a request without a
\* body parses to the empty object.
JsonParse(raw) ==
  LET text == SelectSeq(raw, IsNotBlank)
  IN  IF Len(text) < 2 THEN [members |-> <<>>]
      ELSE [members |-> SubSeq(text, 2, Len(text) - 1)]

\* JSON.stringify(value): the compact text of the object.
JsonStringify(value) == <<"{">> \o value.members \o <<"}">>

\* Map.prototype.set on a Map kept as the sequence of its entries in
\* insertion order: an existing key keeps its place.
MapSet(map, kid, pem) ==
  IF \E i \in 1..Len(map) : map[i].kid = kid
    THEN [i \in 1..Len(map) |->
            IF map[i].kid = kid THEN [kid |-> kid, pem |-> pem] ELSE map[i]]
    ELSE Append(map, [kid |-> kid, pem |-> pem])

(***************************************************************************)
(* State                                                                   *)
(***************************************************************************)
VARIABLES
  nodeEnv,          \* process.env.NODE_ENV
  ampValidateEnv,   \* process.env.AMP_VALIDATE_SIGNATURES ("" when unset)
  now,              \* the wall clock, Date.now()
  publicKeys,       \* AmpValidator.publicKeys, entries in insertion order
  lastKeyFetch,     \* AmpValidator.lastKeyFetch
  call,             \* the requests inside validateAmpSignature / validateSignature
  submissions,      \* WebhookService.submissions, entries in insertion order
  file,             \* data/submissions.json as WebhookService reads and writes it
  loadPc,           \* the loadSubmissions() the constructor started
  pendingWrites,    \* the fs.writeFile calls of saveSubmissions in flight
  inserts,          \* processSubmission calls so far
  storeLast,        \* the last operation on WebhookService.submissions
  fileAtStart,      \* data/submissions.json as it was when the process started
  dbType,           \* config.database.type
  dbSubmissions,    \* DatabaseService.submissions
  dbFile,           \* data/submissions.json as DatabaseService writes it
  dbSaves,          \* saveSubmission calls so far
  dbLast,           \* the last DatabaseService operation and how it ended
  codec             \* the last call of the key codec and what it gave

validatorVars == <<publicKeys, lastKeyFetch, call>>
storeVars ==
  <<submissions, file, loadPc, pendingWrites, inserts, storeLast, fileAtStart>>
dbVars == <<dbType, dbSubmissions, dbFile, dbSaves, dbLast>>
vars == <<nodeEnv, ampValidateEnv, now, validatorVars, storeVars, dbVars, codec>>

(***************************************************************************)
(* config/default: amp.validateSignatures with the development override    *)
(***************************************************************************)
validateSignatures(env, flag) ==
  IF env = "development" THEN FALSE ELSE flag # "false"

(***************************************************************************)
(* AmpValidator                                                            *)
(***************************************************************************)
Result(isValid, error, publicKey) ==
  [isValid |-> isValid, error |-> error, publicKey |-> publicKey]
NoResult == Result(FALSE, "not run", "")
ErrFormat == "Invalid signature format. Expected rsa-sha256= prefix"
ErrTimestamp == "Timestamp too old"
ErrAllKeys == "Signature verification failed with all available public keys"
ErrValidation == "Validation error: Cannot validate AMP signatures"

\* !signature || !signature.startsWith('rsa-sha256='), negated.
\* A format check that asks for a signature header and not for its prefix.
SignatureFormatOk_AnyPrefix(signature) == signature # AbsentHeader

SignatureFormatOk(signature) ==
  signature # AbsentHeader /\ signature.prefix = AlgPrefix

\* signature.replace('rsa-sha256=', '') and Buffer.from(.., 'base64').
SignatureBuffer(signature) == signature.data

\* timeDiff > maxTimeDiff, with timeDiff = Math.abs(now - parseInt(ts) * 1000);
\* a NaN timeDiff compares false.
\* A freshness check without Math.abs: it lets timestamps of the future pass.
TimestampTooOld_PastOnly(timestamp, clock) ==
  LET parsed == parseInt(timestamp)
  IN  IF parsed.nan THEN FALSE
      ELSE (clock - parsed.val * 1000) > maxTimeDiff

TimestampTooOld(timestamp, clock) ==
  LET parsed == parseInt(timestamp)
  IN  IF parsed.nan THEN FALSE
      ELSE Abs(clock - parsed.val * 1000) > maxTimeDiff

\* The early return of ensurePublicKeys.
KeysFresh(keys, last, clock) ==
  Len(keys) > 0 /\ (clock - last) < KEY_CACHE_TTL

RECURSIVE AddKeys_ThrowOnBadKey(_, _, _)
\* A loop without the inner try/catch: a key that does not convert ends it.
AddKeys_ThrowOnBadKey(keys, entries, i) ==
  IF i > Len(entries) THEN [keys |-> keys, threw |-> FALSE]
  ELSE LET keyData == entries[i]
       IN  IF keyData.null THEN [keys |-> keys, threw |-> TRUE]
           ELSE IF /\ keyData.kid # ""
                   /\ keyData.n.kind # "missing"
                   /\ keyData.e.kind # "missing"
                  THEN IF keyData.n.kind = "string" /\ keyData.e.kind = "string"
                         THEN AddKeys_ThrowOnBadKey(
                                MapSet(keys, keyData.kid,
                                       jwkToPem([n |-> keyData.n.bytes,
                                                 e |-> keyData.e.bytes])),
                                entries, i + 1)
                         ELSE [keys |-> keys, threw |-> TRUE]
                  ELSE AddKeys_ThrowOnBadKey(keys, entries, i + 1)

RECURSIVE AddKeys(_, _, _)
\* The for loop over keysData.keys, from entry i on: the map it leaves, and
\* whether it was left by an exception (reading .kid of null).
AddKeys(keys, entries, i) ==
  IF i > Len(entries) THEN [keys |-> keys, threw |-> FALSE]
  ELSE LET keyData == entries[i]
       IN  IF keyData.null THEN [keys |-> keys, threw |-> TRUE]
           ELSE IF /\ keyData.kid # ""
                   /\ keyData.n.kind # "missing"
                   /\ keyData.e.kind # "missing"
                  THEN IF keyData.n.kind = "string" /\ keyData.e.kind = "string"
                         THEN AddKeys(MapSet(keys, keyData.kid,
                                             jwkToPem([n |-> keyData.n.bytes,
                                                       e |-> keyData.e.bytes])),
                                      entries, i + 1)
                         \* Buffer.from(<number>, 'base64url') throws: skipped
                         ELSE AddKeys(keys, entries, i + 1)
                  ELSE AddKeys(keys, entries, i + 1)

\* An ensurePublicKeys that throws on every failed fetch, cached keys or not.
EnsureAfterFetch_AlwaysThrows(keys, last, clock, outcome) ==
  IF outcome.kind = "ok"
    THEN LET loaded == AddKeys(<<>>, outcome.keys, 1)
         IN  IF loaded.threw
               THEN [keys |-> loaded.keys, last |-> last, failed |-> TRUE,
                     throws |-> TRUE]
               ELSE [keys |-> loaded.keys, last |-> clock, failed |-> FALSE,
                     throws |-> FALSE]
    ELSE [keys |-> keys, last |-> last, failed |-> TRUE, throws |-> TRUE]

\* ensurePublicKeys from the point where the awaited fetch settles: the key
\* map and fetch time it leaves, whether the catch block was entered (failed),
\* and whether it throws to validateSignature.
EnsureAfterFetch(keys, last, clock, outcome) ==
  IF outcome.kind = "ok"
    THEN LET loaded == AddKeys(<<>>, outcome.keys, 1)
         IN  IF loaded.threw
               THEN [keys |-> loaded.keys, last |-> last, failed |-> TRUE,
                     throws |-> Len(loaded.keys) = 0]
               ELSE [keys |-> loaded.keys, last |-> clock, failed |-> FALSE,
                     throws |-> FALSE]
    ELSE [keys |-> keys, last |-> last, failed |-> TRUE,
          throws |-> Len(keys) = 0]

RECURSIVE VerifyWithKeys_StopAtThrow(_, _, _, _)
\* A key loop without the try/catch: a key that throws ends the verification.
VerifyWithKeys_StopAtThrow(keys, i, message, signatureBuffer) ==
  IF i > Len(keys) THEN Result(FALSE, ErrAllKeys, "")
  ELSE LET isValid == CryptoVerify(keys[i].pem, message, signatureBuffer)
       IN  IF isValid = "true" THEN Result(TRUE, "", keys[i].kid)
           ELSE IF isValid = "throws" THEN Result(FALSE, ErrAllKeys, "")
           ELSE VerifyWithKeys_StopAtThrow(keys, i + 1, message, signatureBuffer)

RECURSIVE VerifyWithKeys(_, _, _, _)
\* The for loop over this.publicKeys, from entry i on.
VerifyWithKeys(keys, i, message, signatureBuffer) ==
  IF i > Len(keys) THEN Result(FALSE, ErrAllKeys, "")
  ELSE LET isValid == CryptoVerify(keys[i].pem, message, signatureBuffer)
       IN  IF isValid = "true" THEN Result(TRUE, "", keys[i].kid)
           ELSE VerifyWithKeys(keys, i + 1, message, signatureBuffer)

(***************************************************************************)
(* One request: validateAmpSignature around validateSignature              *)
(***************************************************************************)
IdleCall ==
  [pc |-> "idle", via |-> "", req |-> NoRequest, rawBody |-> <<>>, at |-> 0,
   result |-> NoResult, ampValid |-> "unset", response |-> "",
   keyAccess |-> FALSE, fetches |-> 0, looped |-> FALSE, keysSeen |-> <<>>,
   refresh |-> "none", keysBefore |-> <<>>, keysAfter |-> <<>>,
   gotKeys |-> FALSE, fetched |-> <<>>]

\* const rawBody = req.body ? JSON.stringify(req.body) : ''  (req.body is
\* what express.json() left: always an object)
MiddlewareRawBody(body) == JsonStringify(JsonParse(body))

\* The request leaves the middleware: ampData.isValidSignature, then next()
\* or the 401 answer.  A direct caller just gets the result.
Complete(rec, result) ==
  [rec EXCEPT !.pc = "done", !.result = result,
     !.ampValid = IF rec.via # "http" THEN "unset"
                  ELSE IF result.isValid THEN "true" ELSE "false",
     !.response = IF rec.via # "http" THEN ""
                  ELSE IF result.isValid THEN "next" ELSE "401"]

\* validateSignature up to its first real wait: the format check, the
\* freshness check, the entry of ensurePublicKeys.
StartValidate(rec, keys, last, clock) ==
  IF ~SignatureFormatOk(rec.req.signature)
    THEN Complete(rec, Result(FALSE, ErrFormat, ""))
  ELSE IF TimestampTooOld(rec.req.timestamp, clock)
    THEN Complete(rec, Result(FALSE, ErrTimestamp, ""))
  ELSE IF KeysFresh(keys, last, clock)
    THEN [rec EXCEPT !.pc = "ensured", !.keyAccess = TRUE]
  ELSE [rec EXCEPT !.pc = "fetching", !.keyAccess = TRUE, !.fetches = 1]

\* Whether the middleware hands the request on without validating it:
\* "disabled" by configuration, "missing" headers in development, or "no".
\* A middleware that lets requests without the headers through in every
\* environment.
MiddlewareBypass_AnyEnv(env, flag, req) ==
  IF ~validateSignatures(env, flag) THEN "disabled"
  ELSE IF req.signature = AbsentHeader \/ req.timestamp = <<>> THEN "missing"
  ELSE "no"

MiddlewareBypass(env, flag, req) ==
  IF ~validateSignatures(env, flag) THEN "disabled"
  ELSE IF (req.signature = AbsentHeader \/ req.timestamp = <<>>)
          /\ env = "development" THEN "missing"
  ELSE "no"

\* validateAmpSignature(req, res, next) up to its first real wait.
HttpRequest(c, req) ==
  /\ call[c].pc = "idle"
  /\ LET rec == [IdleCall EXCEPT !.via = "http", !.req = req, !.at = now]
     IN  call' = [call EXCEPT ![c] =
           IF MiddlewareBypass(nodeEnv, ampValidateEnv, req) # "no"
             THEN [rec EXCEPT !.pc = "done", !.ampValid = "true",
                              !.response = "next"]
           ELSE IF req.signature = AbsentHeader \/ req.timestamp = <<>>
             THEN [rec EXCEPT !.pc = "done", !.ampValid = "false",
                              !.response = "400"]
           ELSE StartValidate([rec EXCEPT !.rawBody = MiddlewareRawBody(req.body)],
                              publicKeys, lastKeyFetch, now)]
  /\ UNCHANGED <<codec, nodeEnv, ampValidateEnv, now, publicKeys, lastKeyFetch,
                 storeVars, dbVars>>

\* ampValidator.validateSignature(body, signature, timestamp) called on the
\* exported singleton, up to its first real wait.
ValidateSignatureCall(c, req) ==
  /\ call[c].pc = "idle"
  /\ call' = [call EXCEPT ![c] =
       StartValidate([IdleCall EXCEPT !.via = "direct", !.req = req,
                                      !.rawBody = req.body, !.at = now],
                     publicKeys, lastKeyFetch, now)]
  /\ UNCHANGED <<codec, nodeEnv, ampValidateEnv, now, publicKeys, lastKeyFetch,
                 storeVars, dbVars>>

\* The fetch of request c settles; the rest of ensurePublicKeys runs.
FetchResponds(c, outcome) ==
  /\ call[c].pc = "fetching"
  /\ LET after == EnsureAfterFetch(publicKeys, lastKeyFetch, call[c].at, outcome)
         rec   == [call[c] EXCEPT
                     !.refresh = IF after.failed THEN "failed" ELSE "ok",
                     !.keysBefore = publicKeys, !.keysAfter = after.keys,
                     !.gotKeys = (outcome.kind = "ok"),
                     !.fetched = outcome.keys]
     IN  /\ publicKeys' = after.keys
         /\ lastKeyFetch' = after.last
         /\ call' = [call EXCEPT ![c] =
              IF after.throws
                THEN Complete([rec EXCEPT !.keysSeen = after.keys],
                              Result(FALSE, ErrValidation, ""))
                ELSE [rec EXCEPT !.pc = "ensured"]]
  /\ UNCHANGED <<codec, nodeEnv, ampValidateEnv, now, storeVars, dbVars>>

\* validateSignature after `await this.ensurePublicKeys()`: the message, the
\* loop over the keys, the result; the middleware then finishes the request.
VerifyKeys(c) ==
  /\ call[c].pc = "ensured"
  /\ LET message == call[c].req.timestamp \o call[c].rawBody
         result  == VerifyWithKeys(publicKeys, 1, message,
                                   SignatureBuffer(call[c].req.signature))
     IN  call' = [call EXCEPT ![c] =
           Complete([call[c] EXCEPT !.looped = TRUE, !.keysSeen = publicKeys],
                    result)]
  /\ UNCHANGED <<codec, nodeEnv, ampValidateEnv, now, publicKeys, lastKeyFetch,
                 storeVars, dbVars>>

\* The request object is dropped.
Forget(c) ==
  /\ call[c].pc = "done"
  /\ call' = [call EXCEPT ![c] = IdleCall]
  /\ UNCHANGED <<codec, nodeEnv, ampValidateEnv, now, publicKeys, lastKeyFetch,
                 storeVars, dbVars>>

\* Time passes: one key-cache TTL.
Tick ==
  /\ now < T0 + MaxTicks * KEY_CACHE_TTL
  /\ now' = now + KEY_CACHE_TTL
  /\ UNCHANGED <<codec, nodeEnv, ampValidateEnv, validatorVars, storeVars, dbVars>>

(***************************************************************************)
(* WebhookService: the in-memory submission store                          *)
(***************************************************************************)
Front(q) == SubSeq(q, 1, Len(q) - 1)
Last(q) == q[Len(q)]

\* A stored submission: its id (the clock and the random bytes it was made
\* from), its timestamp, and the request it came from.
Submission(t, r, timestamp, payload) ==
  [id |-> [t |-> t, r |-> r], timestamp |-> timestamp, payload |-> payload]

\* generateSubmissionId(): `sub_${Date.now().toString(36)}_${randomBytes}`.
generateSubmissionId(clock, random) == [t |-> clock, r |-> random]

\* Map.prototype.set on the id-keyed Map: an existing id keeps its place.
StoreSet(map, entry) ==
  IF \E i \in 1..Len(map) : map[i].id = entry.id
    THEN [i \in 1..Len(map) |-> IF map[i].id = entry.id THEN entry ELSE map[i]]
    ELSE Append(map, entry)

RECURSIVE StoreSetAll(_, _)
\* submissions.forEach(s => this.submissions.set(s.id, ..)) of loadSubmissions.
StoreSetAll(map, entries) ==
  IF entries = <<>> THEN map
  ELSE StoreSetAll(StoreSet(map, Head(entries)), Tail(entries))

RECURSIVE InsertOldestFirst(_, _)
InsertOldestFirst(sorted, x) ==
  IF sorted = <<>> \/ Last(sorted).timestamp <= x.timestamp
    THEN Append(sorted, x)
    ELSE Append(InsertOldestFirst(Front(sorted), x), Last(sorted))

RECURSIVE SortOldestFirst(_)
\* Array.prototype.sort((a, b) => a.timestamp - b.timestamp): stable.
SortOldestFirst(entries) ==
  IF entries = <<>> THEN <<>>
  ELSE InsertOldestFirst(SortOldestFirst(Front(entries)), Last(entries))

\* Math.floor(submissions.length * 0.1)
toRemove(length) == length \div 10

\* An eviction that removes the newest tenth.
cleanupOldSubmissions_Newest(map) ==
  LET sorted  == SortOldestFirst(map)
      count   == toRemove(Len(sorted))
      removed == { sorted[i].id : i \in (Len(sorted) - count + 1)..Len(sorted) }
      Kept(entry) == entry.id \notin removed
  IN  SelectSeq(map, Kept)

\* cleanupOldSubmissions(): the map without the oldest tenth of its entries.
cleanupOldSubmissions(map) ==
  LET sorted  == SortOldestFirst(map)
      removed == { sorted[i].id : i \in 1..toRemove(Len(sorted)) }
      Kept(entry) == entry.id \notin removed
  IN  SelectSeq(map, Kept)

\* The set and the eviction of processSubmission.
InsertAndEvict(map, entry) ==
  LET stored == StoreSet(map, entry)
  IN  IF Len(stored) > maxSubmissions THEN cleanupOldSubmissions(stored)
      ELSE stored

NoSubmission == Submission(0, 0, 0, 0)

\* A processSubmission that starts saveSubmissions() between the set and the
\* eviction.
ProcessSubmission_SnapshotFirst(formData, random) ==
  /\ inserts < MaxInserts
  /\ Len(pendingWrites) < MaxPendingWrites
  /\ inserts' = inserts + 1
  /\ LET id    == generateSubmissionId(now, random)
         entry == Submission(id.t, id.r, now, inserts + 1)
     IN  IF formData = "empty"
           THEN /\ storeLast' = [op |-> "rejected", pre |-> submissions,
                                 entry |-> entry]
                /\ UNCHANGED <<submissions, pendingWrites>>
           ELSE /\ submissions' = InsertAndEvict(submissions, entry)
                /\ pendingWrites' = Append(pendingWrites,
                                          StoreSet(submissions, entry))
                /\ storeLast' = [op |-> "insert", pre |-> submissions,
                                 entry |-> entry]
  /\ UNCHANGED <<codec, nodeEnv, ampValidateEnv, now, validatorVars, fileAtStart, file, loadPc,
                 dbVars>>

\* processSubmission(request): the id, validateFormData, the record, the
\* set, the eviction, and the saveSubmissions() it starts without waiting
\* (which takes its snapshot of the map before its first wait).
ProcessSubmission(formData, random) ==
  /\ inserts < MaxInserts
  /\ Len(pendingWrites) < MaxPendingWrites
  /\ inserts' = inserts + 1
  /\ LET id    == generateSubmissionId(now, random)
         entry == Submission(id.t, id.r, now, inserts + 1)
     IN  IF formData = "empty"
           THEN /\ storeLast' = [op |-> "rejected", pre |-> submissions,
                                 entry |-> entry]
                /\ UNCHANGED <<submissions, pendingWrites>>
           ELSE /\ submissions' = InsertAndEvict(submissions, entry)
                /\ pendingWrites' = Append(pendingWrites, submissions')
                /\ storeLast' = [op |-> "insert", pre |-> submissions,
                                 entry |-> entry]
  /\ UNCHANGED <<codec, nodeEnv, ampValidateEnv, now, validatorVars, fileAtStart, file, loadPc,
                 dbVars>>

\* The readFile of loadSubmissions settles and its entries are set.
LoadSubmissions ==
  /\ loadPc = "reading"
  /\ loadPc' = "done"
  /\ submissions' = IF file.exists THEN StoreSetAll(submissions, file.entries)
                    ELSE submissions
  /\ storeLast' = [op |-> "load", pre |-> submissions, entry |-> NoSubmission]
  /\ UNCHANGED <<codec, nodeEnv, ampValidateEnv, now, validatorVars, fileAtStart, file,
                 pendingWrites, inserts, dbVars>>

RemoveAt(q, i) == SubSeq(q, 1, i - 1) \o SubSeq(q, i + 1, Len(q))

\* One fs.writeFile of saveSubmissions completes.
WriteLands(i) ==
  /\ i \in 1..Len(pendingWrites)
  /\ file' = [exists |-> TRUE, entries |-> pendingWrites[i]]
  /\ pendingWrites' = RemoveAt(pendingWrites, i)
  /\ UNCHANGED <<codec, nodeEnv, ampValidateEnv, now, validatorVars, fileAtStart, submissions,
                 loadPc, inserts, storeLast, dbVars>>

\* One fs.writeFile of saveSubmissions fails: logged, nothing else.
WriteFails(i) ==
  /\ i \in 1..Len(pendingWrites)
  /\ pendingWrites' = RemoveAt(pendingWrites, i)
  /\ UNCHANGED <<codec, nodeEnv, ampValidateEnv, now, validatorVars, fileAtStart, submissions,
                 file, loadPc, inserts, storeLast, dbVars>>

\* What an earlier run of the process left in data/submissions.json: k
\* submissions, two to a millisecond, oldest first.
StoredEntries(k) ==
  [i \in 1..k |-> Submission(T0 - 1000 + ((i + 1) \div 2), i % 2,
                             T0 - 1000 + ((i + 1) \div 2), 0)]
InitialFiles ==
  { [exists |-> FALSE, entries |-> <<>>],
    [exists |-> TRUE, entries |-> StoredEntries(maxSubmissions - 1)],
    [exists |-> TRUE, entries |-> StoredEntries(maxSubmissions)] }

(***************************************************************************)
(* DatabaseService: the store behind the administrative routes             *)
(***************************************************************************)
\* generateId(): `sub_${Date.now()}_${Math.random().toString(36).substr(2, 9)}`
generateId(clock, random) == [t |-> clock, r |-> random]

RECURSIVE InsertNewestFirst(_, _)
InsertNewestFirst(sorted, x) ==
  IF sorted = <<>> \/ Last(sorted).timestamp >= x.timestamp
    THEN Append(sorted, x)
    ELSE Append(InsertNewestFirst(Front(sorted), x), Last(sorted))

RECURSIVE SortNewestFirst(_)
\* Array.prototype.sort((a, b) => b.timestamp - a.timestamp): stable.
SortNewestFirst(entries) ==
  IF entries = <<>> THEN <<>>
  ELSE InsertNewestFirst(SortNewestFirst(Front(entries)), Last(entries))

\* A submission as the DatabaseService holds it.  isDate tells whether its
\* timestamp is a Date (set by saveSubmission) or the string JSON.parse left
\* when initializeStorage read it from the file.
DbSubmission(t, r, timestamp, payload, formId, isDate) ==
  [id |-> [t |-> t, r |-> r], timestamp |-> timestamp, payload |-> payload,
   formId |-> formId, isDate |-> isDate]

FormIds == {"contact", "survey"}

\* s.timestamp >= date and s.timestamp <= date: a string timestamp converts
\* to NaN, and every comparison with NaN is false.
AtOrAfter(entry, date) == entry.isDate /\ entry.timestamp >= date
AtOrBefore(entry, date) == entry.isDate /\ entry.timestamp <= date

DbResult(op, threw, pre, arg, ret, total) ==
  [op |-> op, threw |-> threw, pre |-> pre, arg |-> arg, ret |-> ret,
   total |-> total]

\* saveSubmission(submission): id, timestamp, push, then saveToFile() under
\* file storage, whose exception is rethrown.
SaveSubmission(random, formId, writeOk) ==
  /\ dbSaves < MaxDbSaves
  /\ dbSaves' = dbSaves + 1
  /\ LET id    == generateId(now, random)
         entry == DbSubmission(id.t, id.r, now, dbSaves + 1, formId, TRUE)
     IN  /\ dbSubmissions' = Append(dbSubmissions, entry)
         /\ IF dbType = "file"
              THEN /\ dbFile' = IF writeOk THEN dbSubmissions' ELSE dbFile
                   /\ dbLast' = DbResult("save", ~writeOk, dbSubmissions,
                                         0, <<entry>>, 0)
              ELSE /\ writeOk
                   /\ dbFile' = dbFile
                   /\ dbLast' = DbResult("save", FALSE, dbSubmissions,
                                         0, <<entry>>, 0)
  /\ UNCHANGED <<codec, nodeEnv, ampValidateEnv, now, validatorVars, storeVars, dbType>>

\* cleanupOldSubmissions(daysOld): keeps the submissions at or after the
\* cutoff, returns how many it dropped; saveToFile() under file storage.
CleanupOldSubmissions(daysOld, writeOk) ==
  /\ dbSubmissions # <<>>
  /\ LET cutoffDate == now - daysOld * 24 * 60 * 60 * 1000
         Recent(entry) == AtOrAfter(entry, cutoffDate)
         kept == SelectSeq(dbSubmissions, Recent)
         deletedCount == Len(dbSubmissions) - Len(kept)
     IN  /\ dbSubmissions' = kept
         /\ IF deletedCount > 0 /\ dbType = "file"
              THEN /\ dbFile' = IF writeOk THEN kept ELSE dbFile
                   /\ dbLast' = DbResult("cleanup", ~writeOk, dbSubmissions,
                                         cutoffDate, <<>>, deletedCount)
              ELSE /\ writeOk
                   /\ dbFile' = dbFile
                   /\ dbLast' = DbResult("cleanup", FALSE, dbSubmissions,
                                         cutoffDate, <<>>, deletedCount)
  /\ UNCHANGED <<codec, nodeEnv, ampValidateEnv, now, validatorVars, storeVars, dbType,
                 dbSaves>>

\* b.timestamp.getTime() throws on a string timestamp as soon as the sort
\* calls its comparator, that is with two entries or more.
StringTimestampCompared(entries) ==
  Len(entries) > 1 /\ \E i \in 1..Len(entries) : ~entries[i].isDate

\* getAdminStats(): this.submissions.sort(..) sorts the stored array itself;
\* a sort that throws leaves it as it was.
GetAdminStats ==
  /\ dbSubmissions # <<>>
  /\ IF StringTimestampCompared(dbSubmissions)
       THEN /\ dbSubmissions' = dbSubmissions
            /\ dbLast' = DbResult("stats", TRUE, dbSubmissions, 0, <<>>, 0)
       ELSE /\ dbSubmissions' = SortNewestFirst(dbSubmissions)
            /\ dbLast' = DbResult("stats", FALSE, dbSubmissions, 0, <<>>, 0)
  /\ UNCHANGED <<codec, nodeEnv, ampValidateEnv, now, validatorVars, storeVars, dbType,
                 dbFile, dbSaves>>

\* filtered.slice(offset, offset + limit)
Slice(q, start, end) ==
  SubSeq(q, start + 1, IF end < Len(q) THEN end ELSE Len(q))

\* DatabaseService.getSubmissions(options): the formId filter, the sort, the
\* page.  "" is an omitted formId; a limit of 0 counts as omitted (|| 100).
getSubmissions(entries, formId, offset, limit) ==
  LET Matches(entry) == formId = "" \/ entry.formId = formId
      filtered == SortNewestFirst(SelectSeq(entries, Matches))
  IN  Slice(filtered, offset, offset + (IF limit = 0 THEN 100 ELSE limit))

\* b.timestamp.getTime() of the sort throws on a string timestamp as soon as
\* the comparator is called, that is with two entries or more.
SortThrows(entries, formId) ==
  LET Matches(entry) == formId = "" \/ entry.formId = formId
      filtered == SelectSeq(entries, Matches)
  IN  Len(filtered) > 1 /\ \E i \in 1..Len(filtered) : ~filtered[i].isDate

\* GET /api/submissions: database.getSubmissions, then the answer with
\* total: submissions.length, or the 500 answer.
ListSubmissions(formId, offset, limit) ==
  /\ dbSubmissions # <<>>
  /\ dbLast' =
       IF SortThrows(dbSubmissions, formId)
         THEN DbResult("list", TRUE, dbSubmissions,
                       [formId |-> formId, offset |-> offset, limit |-> limit],
                       <<>>, 0)
         ELSE LET page == getSubmissions(dbSubmissions, formId, offset, limit)
              IN  DbResult("list", FALSE, dbSubmissions,
                           [formId |-> formId, offset |-> offset,
                            limit |-> limit],
                           page, Len(page))
  /\ UNCHANGED <<codec, nodeEnv, ampValidateEnv, now, validatorVars, storeVars, dbType,
                 dbSubmissions, dbFile, dbSaves>>

\* The offset and limit of the list requests made.
ListPages == { <<0, 0>>, <<0, 1>>, <<1, 2>> }

\* How the DatabaseService starts: memory storage, or file storage with the
\* two submissions an earlier run left in data/submissions.json, one of them
\* two days old.  initializeStorage reads the file inside the constructor.
DayMs == 24 * 60 * 60 * 1000
DbStoredEntries ==
  << DbSubmission(T0 - 2 * DayMs, 0, T0 - 2 * DayMs, 0, "contact", FALSE),
     DbSubmission(T0 - 1000, 1, T0 - 1000, 0, "survey", FALSE) >>
DbStartups ==
  { [type |-> "memory", stored |-> <<>>],
    [type |-> "file", stored |-> DbStoredEntries] }

(***************************************************************************)
(* The key codec called on its own                                         *)
(***************************************************************************)
\* The byte strings tried as modulus and exponent: every string of up to
\* MaxBytes bytes over a few byte values, and strings long enough for the
\* long form of the DER length, with and without the high bit in front.
ByteValues == {0, 1, 127, 128, 255}
ShortByteStrings == UNION { [1..k -> ByteValues] : k \in 0..MaxBytes }
LongLengths == {127, 128, 256}
LongByteStrings ==
  { [i \in 1..k |-> IF i = 1 THEN first ELSE 7] :
      k \in LongLengths, first \in {1, 128} }
ByteStrings == ShortByteStrings \cup LongByteStrings
Exponents == { <<>>, <<3>>, <<1, 0, 1>>, <<255>> }

CodecCall(op, n, e, out, threw) ==
  [op |-> op, n |-> n, e |-> e, out |-> out, threw |-> threw]
NoCodecCall == CodecCall("none", <<>>, <<>>, <<>>, FALSE)

\* createASN1Integer(value)
EncodeInteger(value) ==
  /\ codec = NoCodecCall
  /\ codec' = CodecCall("integer", value, <<>>, createASN1Integer(value), FALSE)
  /\ UNCHANGED <<nodeEnv, ampValidateEnv, now, validatorVars, storeVars, dbVars>>

\* jwkToPem(jwk) on a JWK whose n and e decode to the bytes n and e: no
\* statement of it, of createRSAPublicKeyDER or of createASN1Integer throws.
JwkToPemCall(n, e) ==
  /\ codec = NoCodecCall
  /\ codec' = CodecCall("pem", n, e, jwkToPem([n |-> n, e |-> e]), FALSE)
  /\ UNCHANGED <<nodeEnv, ampValidateEnv, now, validatorVars, storeVars, dbVars>>

\* The caller is done with what the codec returned.
CodecReturn ==
  /\ codec # NoCodecCall
  /\ codec' = NoCodecCall
  /\ UNCHANGED <<nodeEnv, ampValidateEnv, now, validatorVars, storeVars, dbVars>>

(***************************************************************************)
(* The program after start-up, and its specifications                      *)
(***************************************************************************)
Init ==
  /\ nodeEnv \in {"development", "production"}
  /\ ampValidateEnv \in {"", "false"}
  /\ now = T0
  /\ publicKeys = <<>>
  /\ lastKeyFetch = 0
  /\ call = [c \in 1..NumCalls |-> IdleCall]
  /\ submissions = <<>>
  /\ file \in InitialFiles
  /\ fileAtStart = file
  /\ loadPc = "reading"
  /\ pendingWrites = <<>>
  /\ inserts = 0
  /\ storeLast = [op |-> "none", pre |-> <<>>, entry |-> NoSubmission]
  /\ \E startup \in DbStartups :
       /\ dbType = startup.type
       /\ dbFile = startup.stored
       /\ dbSubmissions = startup.stored
  /\ dbSaves = 0
  /\ dbLast = DbResult("none", FALSE, <<>>, 0, <<>>, 0)
  /\ codec = NoCodecCall

\* The start-up states told apart by what one service reads: the other
\* services start in their plainest configuration.
PlainEnv == nodeEnv = "production" /\ ampValidateEnv = ""
PlainStore == ~file.exists
PlainDb == dbType = "memory"
InitValidator == Init /\ PlainStore /\ PlainDb
InitStore == Init /\ PlainEnv /\ PlainDb
InitDb == Init /\ PlainEnv /\ PlainStore
InitCodec == Init /\ PlainEnv /\ PlainStore /\ PlainDb

\* One request at a time, every input.
NextVerify ==
  \/ \E req \in Requests : HttpRequest(1, req)
  \/ \E req \in Requests : ValidateSignatureCall(1, req)
  \/ \E outcome \in FetchOutcomes : FetchResponds(1, outcome)
  \/ VerifyKeys(1)
  \/ Forget(1)
  \/ Tick

SpecVerify == InitValidator /\ [][NextVerify]_vars

\* Concurrent requests, correctly signed.
NextRefresh ==
  \/ \E c \in 1..NumCalls, req \in RefreshRequests : HttpRequest(c, req)
  \/ \E c \in 1..NumCalls, outcome \in FetchOutcomes : FetchResponds(c, outcome)
  \/ \E c \in 1..NumCalls : VerifyKeys(c)
  \/ \E c \in 1..NumCalls : Forget(c)
  \/ Tick

SpecRefresh == InitValidator /\ [][NextRefresh]_vars

\* The same, with what the event loop guarantees: a continuation that is
\* ready to run (the key loop after ensurePublicKeys returned) does run.  When
\* the key endpoint answers is up to the endpoint: no fairness for it.
SpecRefreshLive ==
  SpecRefresh /\ \A c \in 1..NumCalls : WF_vars(VerifyKeys(c))

\* The submission store under inserts, the start-up load and its writes.
NextStore ==
  \/ \E formData \in {"fields", "empty"}, random \in RandomValues :
       ProcessSubmission(formData, random)
  \/ LoadSubmissions
  \/ \E i \in 1..MaxPendingWrites : WriteLands(i)
  \/ \E i \in 1..MaxPendingWrites : WriteFails(i)
  \/ Tick

SpecStore == InitStore /\ [][NextStore]_vars

\* The key codec on every input.
NextCodec ==
  \/ \E value \in ByteStrings : EncodeInteger(value)
  \/ \E n \in ByteStrings, e \in Exponents : JwkToPemCall(n, e)
  \/ CodecReturn

SpecCodec == InitCodec /\ [][NextCodec]_vars

\* The administrative store.
NextDb ==
  \/ \E random \in RandomValues, formId \in FormIds, writeOk \in BOOLEAN :
       SaveSubmission(random, formId, writeOk)
  \/ \E daysOld \in {0, 1}, writeOk \in BOOLEAN :
       CleanupOldSubmissions(daysOld, writeOk)
  \/ GetAdminStats
  \/ \E formId \in {"", "contact"}, page \in ListPages :
       ListSubmissions(formId, page[1], page[2])
  \/ Tick

SpecDb == InitDb /\ [][NextDb]_vars

(***************************************************************************)
(* Properties of the validator and the middleware                          *)
(***************************************************************************)
Calls == 1..NumCalls

\* validateSignature was entered for the request in slot c.
Ran(c) == call[c].pc \in {"fetching", "ensured"} \/ call[c].result # NoResult
Finished(c) == call[c].pc = "done"

\* The message validateSignature verifies for slot c, and the signature bytes.
MessageOf(c) == call[c].req.timestamp \o call[c].rawBody
KeyVerifies(key, c) ==
  CryptoVerify(key.pem, MessageOf(c), call[c].req.signature.data) = "true"

\* C1: while the key cache is stale or empty, the concurrent verifications
\* that reached ensurePublicKeys before any fetch completed have issued at
\* most one key fetch between them: at most one fetch is in flight.
C1_SingleFlight ==
  Cardinality({c \in Calls : call[c].pc = "fetching"}) <= 1

OutsideWindow(seconds, clock) ==
  \/ seconds * 1000 < clock - 5 * 60 * 1000
  \/ seconds * 1000 > clock + 5 * 60 * 1000

\* C3: a validateSignature call whose claimed timestamp lies more than 5
\* minutes before or after the clock is rejected, whatever the signature and
\* the cached keys; past the format check the error is the timestamp error and
\* neither the key cache nor a key is touched.  A timestamp within the window
\* is never answered with the timestamp error.
C3_FreshnessWindow ==
  \A c \in Calls :
    (Finished(c) /\ Ran(c) /\ ~parseInt(call[c].req.timestamp).nan)
      => LET seconds == parseInt(call[c].req.timestamp).val
         IN  IF OutsideWindow(seconds, call[c].at)
               THEN /\ ~call[c].result.isValid
                    /\ ~call[c].keyAccess /\ ~call[c].looped
                    /\ call[c].req.signature.prefix = AlgPrefix
                         => call[c].result.error = ErrTimestamp
               ELSE call[c].result.error # ErrTimestamp

\* A stale request whose signature a cached key would verify, rejected.
C3_Witness ==
  \E c \in Calls :
    /\ Finished(c) /\ call[c].result.error = ErrTimestamp
    /\ OutsideWindow(parseInt(call[c].req.timestamp).val, call[c].at)
    /\ \E i \in 1..Len(publicKeys) : KeyVerifies(publicKeys[i], c)

BadSignatureHeader(signature) ==
  signature = AbsentHeader \/ signature.prefix # "rsa-sha256="

C5_AnyKeyVerifies ==
  \A c \in Calls :
    (Finished(c) /\ Ran(c)
       /\ ~BadSignatureHeader(call[c].req.signature)
       /\ call[c].result.error # ErrTimestamp)
      => /\ call[c].result.isValid
              <=> \E i \in 1..Len(call[c].keysSeen) :
                     KeyVerifies(call[c].keysSeen[i], c)
         /\ call[c].result.isValid
              => \E i \in 1..Len(call[c].keysSeen) :
                    /\ call[c].keysSeen[i].kid = call[c].result.publicKey
                    /\ KeyVerifies(call[c].keysSeen[i], c)

\* Accepted by the second key after the first one's verify threw.
C5_Witness ==
  \E c \in Calls :
    /\ Finished(c) /\ call[c].result.isValid /\ Len(call[c].keysSeen) = 2
    /\ CryptoVerify(call[c].keysSeen[1].pem, MessageOf(c),
                    call[c].req.signature.data) = "throws"
    /\ call[c].result.publicKey = call[c].keysSeen[2].kid

\* C6: a verification that faces an empty key set reports an outcome other
\* than the one reported when keys exist but none matches.
C6_KeyUnavailableDistinct ==
  \A c \in Calls :
    (Finished(c) /\ call[c].keyAccess /\ Len(call[c].keysSeen) = 0)
      => call[c].result.error # ErrAllKeys

\* C7: the body the middleware passes to validateSignature is the request
\* body as transmitted, byte for byte.
C7_BodyBytesPreserved ==
  \A c \in Calls :
    (call[c].via = "http" /\ Ran(c)) => call[c].rawBody = call[c].req.body

(***************************************************************************)
(* Properties of the submission stores                                     *)
(***************************************************************************)
Ids(map) == { map[i].id : i \in 1..Len(map) }

\* processSubmission has just stored a submission under a new id in a store
\* that held exactly maxSubmissions.
InsertedAtCapacity ==
  /\ storeLast.op = "insert"
  /\ Len(storeLast.pre) = maxSubmissions
  /\ storeLast.entry.id \notin Ids(storeLast.pre)

\* The store as it was, with the new submission as its last entry.
BeforeEviction == Append(storeLast.pre, storeLast.entry)
Evicted == { i \in 1..Len(BeforeEviction) : BeforeEviction[i].id \notin Ids(submissions) }
Retained == (1..Len(BeforeEviction)) \ Evicted

\* C8: an insert of a new submission into a store holding exactly C =
\* maxSubmissions entries leaves C - floor(C * 0.1) + 1 entries: the new one
\* is among them, floor(C * 0.1) are gone, and every one that is gone has an
\* earlier creation time than every one that stayed, or the same creation time
\* and an earlier place in insertion order.
C8_EvictOldestTenth ==
  InsertedAtCapacity =>
    /\ Len(submissions) = maxSubmissions - (maxSubmissions \div 10) + 1
    /\ \E i \in 1..Len(submissions) : submissions[i] = storeLast.entry
    /\ Cardinality(Evicted) = maxSubmissions \div 10
    /\ \A i \in Evicted, j \in Retained :
         \/ BeforeEviction[i].timestamp < BeforeEviction[j].timestamp
         \/ /\ BeforeEviction[i].timestamp = BeforeEviction[j].timestamp
            /\ i < j
    /\ \A i \in Retained : \E j \in 1..Len(submissions) :
         submissions[j] = BeforeEviction[i]

\* An insert at capacity has evicted a submission that shares its creation
\* time with one that stayed, and was not the first entry of the store.
C8_Witness ==
  /\ InsertedAtCapacity
  /\ \E i \in Evicted, j \in Retained :
       /\ BeforeEviction[i].timestamp = BeforeEviction[j].timestamp
       /\ i > 1

\* C9: right after processSubmission has stored a submission and evicted,
\* the store holds at most maxSubmissions entries, whatever the start-up load
\* has done meanwhile.
C9_SizeWithinCapacity ==
  storeLast.op = "insert" => Len(submissions) <= maxSubmissions

\* The submissions the DatabaseService starts with.
DbStartCount == IF dbType = "file" THEN Len(DbStoredEntries) ELSE 0

\* C10: there is a ceiling that the number of submissions in the
\* DatabaseService never exceeds once a saveSubmission has completed; the
\* ceilings tried are all those below the number of submissions at start plus
\* the number of saveSubmission calls made.
C10_DbBounded ==
  \E ceiling \in 0..(DbStartCount + MaxDbSaves - 1) :
    dbLast.op = "save" => Len(dbSubmissions) <= ceiling

\* C11: an insert into a store under capacity gets an id that no stored
\* submission has, and adds one to the stored count, whatever the clock and
\* the random source returned.
C11_DistinctIds ==
  (storeLast.op = "insert" /\ Len(storeLast.pre) < maxSubmissions)
    => /\ storeLast.entry.id \notin Ids(storeLast.pre)
       /\ Len(submissions) = Len(storeLast.pre) + 1

\* C14: no insert and no cleanup ends in an exception because the write of
\* the data file failed.
C14_PersistFailureNonFatal ==
  dbLast.op \in {"save", "cleanup"} => ~dbLast.threw

\* C15: from one state to the next every stored submission is still stored
\* unchanged under its id, unless the step is an insert that evicts (the store
\* was full) and the submission is gone.
C15_StoredUntilRemoved ==
  [][\A i \in 1..Len(submissions) :
       \/ \E j \in 1..Len(submissions') : submissions'[j] = submissions[i]
       \/ /\ submissions[i].id \notin Ids(submissions')
          /\ inserts' = inserts + 1
          /\ Len(submissions) >= maxSubmissions]_vars

\* The submissions of entries whose form is formId ("" for any form).
OfForm(entries, formId) ==
  LET Matches(entry) == formId = "" \/ entry.formId = formId
  IN  SelectSeq(entries, Matches)

\* C16: a list request is answered with the stored submissions that match
\* the filter, newest first, cut to the page asked for (a limit of 0 being no
\* limit given), and with the number of matching submissions as total.
C16_ListFilteredSortedPaged ==
  dbLast.op = "list"
    => LET matching == OfForm(dbLast.pre, dbLast.arg.formId)
           limit == IF dbLast.arg.limit = 0 THEN 100 ELSE dbLast.arg.limit
       IN  /\ ~dbLast.threw
           /\ dbLast.ret = Slice(SortNewestFirst(matching), dbLast.arg.offset,
                                 dbLast.arg.offset + limit)
           /\ dbLast.total = Len(matching)

\* C17: a cleanup removes the submissions received before the cutoff and no
\* others, and returns how many it removed.
C17_CleanupRemovesOlderOnly ==
  dbLast.op = "cleanup"
    => LET NotOlder(entry) == entry.timestamp >= dbLast.arg
       IN  /\ dbSubmissions = SelectSeq(dbLast.pre, NotOlder)
           /\ dbLast.total = Len(dbLast.pre) - Len(dbSubmissions)

\* C12: when a refresh fails while keys are cached, the cache after the
\* failure is the cache as it was before the refresh.
C12_FailedRefreshKeepsKeys ==
  \A c \in Calls :
    (call[c].refresh = "failed" /\ Len(call[c].keysBefore) > 0)
      => call[c].keysAfter = call[c].keysBefore

ExpectedContent(value) ==
  IF value[1] >= 128 THEN <<0>> \o value ELSE value

\* C18: the encoding of a non-empty byte string is the INTEGER tag 2, a DER
\* length, then the value with one 0 byte before it exactly when its first
\* byte is >= 128; the length read back is that of the value plus the padding.
C18_IntegerEncoding ==
  (codec.op = "integer" /\ codec.n # <<>>)
    => LET out    == codec.out
           length == DerLength(out, 2)
       IN  /\ out[1] = 2
           /\ length[1] = Len(ExpectedContent(codec.n))
           /\ SubSeq(out, length[2], Len(out)) = ExpectedContent(codec.n)

\* A padded value whose padding byte takes the length into the long form.
C18_Witness ==
  /\ codec.op = "integer" /\ Len(codec.n) = 127 /\ codec.n[1] >= 128
  /\ codec.out[2] = 129

\* C19: jwkToPem raises an error when the decoded modulus or the decoded
\* exponent is empty.
C19_EmptyInputRejected ==
  (codec.op = "pem" /\ (codec.n = <<>> \/ codec.e = <<>>)) => codec.threw

\* C20: every verification that waits for a key fetch eventually gets on,
\* also when the key endpoint never answers.
C20_FetchCompletes ==
  \A c \in Calls : (call[c].pc = "fetching") ~> (call[c].pc # "fetching")

\* C21: a verification never waits for a key fetch while the cache holds
\* keys: with a stale key set it is answered from that set.
C21_ReadNeverBlocks ==
  \A c \in Calls : call[c].pc = "fetching" => Len(publicKeys) = 0

\* The descriptors of a response that carry kid, n and e as strings: the
\* keys a completed replacement of the cache publishes.
Convertible(entry) ==
  /\ ~entry.null /\ entry.kid # ""
  /\ entry.n.kind = "string" /\ entry.e.kind = "string"
RECURSIVE PublishedKeys(_)
PublishedKeys(entries) ==
  IF entries = <<>> THEN <<>>
  ELSE IF Convertible(Head(entries))
    THEN <<[kid |-> Head(entries).kid,
            pem |-> jwkToPem([n |-> Head(entries).n.bytes,
                              e |-> Head(entries).e.bytes])]>>
           \o PublishedKeys(Tail(entries))
    ELSE PublishedKeys(Tail(entries))

\* C22: the key loop of a verification whose fetch returned a key array runs
\* over the complete key set of that response, never over a map that is only
\* partly filled.
C22_OneKeySetPerVerification ==
  \A c \in Calls :
    (call[c].looped /\ call[c].gotKeys)
      => call[c].keysSeen = PublishedKeys(call[c].fetched)

NoNullEntry(entries) == \A i \in 1..Len(entries) : ~entries[i].null

\* C24: a refresh whose response is an array of descriptors succeeds even if
\* some of them do not convert: the cache then holds exactly the descriptors
\* that carry kid, n and e and converted, and the fetch time is the refresh's.
C24_BadDescriptorSkipped ==
  \A c \in Calls :
    (call[c].gotKeys /\ NoNullEntry(call[c].fetched))
      => /\ call[c].refresh = "ok"
         /\ call[c].keysAfter = PublishedKeys(call[c].fetched)
         /\ publicKeys = call[c].keysAfter
         /\ lastKeyFetch = call[c].at

\* A refresh that skipped a descriptor without e and one whose n is no string.
C24_Witness ==
  \E c \in Calls :
    /\ call[c].refresh = "ok"
    /\ call[c].fetched = <<JwkNoE, JwkNumber, JwkC>>
    /\ Len(publicKeys) = 1 /\ publicKeys[1].kid = "kC"

\* C25: the recorded fetch time of the key cache never moves backwards.
C25_FetchTimeMonotone == [][lastKeyFetch' >= lastKeyFetch]_vars

\* C29: a verification whose timestamp is no number is rejected without any
\* access to the keys.
C29_NaNTimestampRejected ==
  \A c \in Calls :
    (Ran(c) /\ parseInt(call[c].req.timestamp).nan)
      => /\ ~call[c].keyAccess /\ call[c].fetches = 0 /\ ~call[c].looped
         /\ ~call[c].result.isValid

\* C23: an insert, its eviction and the snapshot for its persistence write
\* are one step: in the state an insert leaves, the eviction that the insert
\* called for has been done, and the snapshot just taken is that state.
C23_InsertEvictAtomic ==
  [][(inserts' = inserts + 1 /\ storeLast'.op = "insert")
       => LET added == IF storeLast'.entry.id \in Ids(submissions) THEN 0 ELSE 1
              size  == Len(submissions) + added
          IN  /\ size > maxSubmissions
                   => Len(submissions') = size - (size \div 10)
              /\ pendingWrites' = Append(pendingWrites, submissions')]_vars

\* An insert into a full store has evicted, and the snapshot of its write is
\* the store after the eviction.
C23_Witness ==
  /\ storeLast.op = "insert" /\ Len(storeLast.pre) >= maxSubmissions
  /\ Len(submissions) <= Len(storeLast.pre)
  /\ pendingWrites # <<>> /\ Last(pendingWrites) = submissions

\* C26: when the last change of the store was an insert and none of the
\* writes is outstanding any more, the file holds the submissions of the
\* store.
C26_PersistenceConverges ==
  (storeLast.op = "insert" /\ pendingWrites = <<>>)
    => file.exists /\ file.entries = submissions

\* C27: right after the start-up load has completed, every submission that
\* was in the file when the process started is in the store.
C27_StartupLoadComplete ==
  storeLast.op = "load"
    => \A i \in 1..Len(fileAtStart.entries) :
         fileAtStart.entries[i].id \in Ids(submissions)

\* C28: an insert that reports failure leaves the store as it was.
C28_FailedInsertLeavesStore ==
  (dbLast.op = "save" /\ dbLast.threw) => dbSubmissions = dbLast.pre

\* C30: a read of the DatabaseService leaves the stored submissions and
\* their order as they were.
C30_ReadsPreserveStore ==
  dbLast.op \in {"stats", "list"} => dbSubmissions = dbLast.pre

====
